---- MODULE Spec2Model ----
(***************************************************************************)
(* The agent runtime of suricata (package runtime): Runtime.Invoke, the    *)
(* agent loop, the chat session and the JSON utilities.                    *)
(*                                                                         *)
(* A text is a sequence of tokens.  The tokens "{" "}" "[" "]" are the     *)
(* bytes of the same name, "q" is the double quote, a key token such as    *)
(* "done" stands for the bytes  "done":  , "true" "false" "null" are the   *)
(* JSON literals and every other token is a byte that is no JSON syntax.   *)
(* Commas and white space carry no information here and are left out.      *)
(***************************************************************************)
EXTENDS Integers, Sequences, FiniteSets, TLC

\* ------------------------------------------------------------------ JSON

\* The field names that occur in the texts (ToolResponse's json tags, the
\* test's Output.Result), in the order json.Marshal writes map keys.
KeyOrder == <<"args", "done", "name", "out", "result">>

Keys == {KeyOrder[i] : i \in 1..Len(KeyOrder)}

\* A decoded JSON value is [k |-> kind, c |-> content]; content is the
\* string's tokens, the array's values or the object's members in text order.
JNull == [k |-> "null", c |-> <<>>]

JBool(t) == [k |-> "bool", c |-> <<t>>]

JStr(toks) == [k |-> "str", c |-> toks]

JArr(elems) == [k |-> "arr", c |-> elems]

JObj(members) == [k |-> "obj", c |-> members]

ParseFail == [ok |-> FALSE, v |-> JNull, n |-> 0]

ParseOk(v, n) == [ok |-> TRUE, v |-> v, n |-> n]

\* Index of the first token t at or after position i, 0 when there is none.
IndexFrom(s, t, i) ==
  IF \E j \in i..Len(s) : s[j] = t
  THEN CHOOSE j \in i..Len(s) : s[j] = t /\ \A h \in i..(j - 1) : s[h] # t
  ELSE 0

RECURSIVE ParseValue(_, _)
RECURSIVE ParseMembers(_, _, _)
RECURSIVE ParseElements(_, _, _)

\* encoding/json's decoder on the value that starts at s[i]: the value and the
\* position after it.
ParseValue(s, i) ==
  IF i > Len(s) THEN ParseFail
  ELSE IF s[i] = "null" THEN ParseOk(JNull, i + 1)
  ELSE IF s[i] \in {"true", "false"} THEN ParseOk(JBool(s[i]), i + 1)
  ELSE IF s[i] = "q" THEN
    LET j == IndexFrom(s, "q", i + 1)
    IN  IF j = 0 THEN ParseFail ELSE ParseOk(JStr(SubSeq(s, i + 1, j - 1)), j + 1)
  ELSE IF s[i] = "{" THEN ParseMembers(s, i + 1, <<>>)
  ELSE IF s[i] = "[" THEN ParseElements(s, i + 1, <<>>)
  ELSE ParseFail

ParseMembers(s, i, acc) ==
  IF i > Len(s) THEN ParseFail
  ELSE IF s[i] = "}" THEN ParseOk(JObj(acc), i + 1)
  ELSE IF s[i] \in Keys THEN
    LET r == ParseValue(s, i + 1)
    IN  IF r.ok THEN ParseMembers(s, r.n, Append(acc, [key |-> s[i], val |-> r.v]))
        ELSE ParseFail
  ELSE ParseFail

ParseElements(s, i, acc) ==
  IF i > Len(s) THEN ParseFail
  ELSE IF s[i] = "]" THEN ParseOk(JArr(acc), i + 1)
  ELSE LET r == ParseValue(s, i)
       IN  IF r.ok THEN ParseElements(s, r.n, Append(acc, r.v)) ELSE ParseFail

\* json.Unmarshal(data, &v) for v of type any or json.RawMessage: the whole
\* text must be one value.
JSONParse(s) ==
  LET r == ParseValue(s, 1)
  IN  IF r.ok /\ r.n = Len(s) + 1 THEN r ELSE ParseFail

JSONValid(s) == JSONParse(s).ok

HasKey(obj, key) == \E i \in 1..Len(obj.c) : obj.c[i].key = key

\* The member a decoder keeps for a key: the last one in the text.
Get(obj, key) ==
  LET i == CHOOSE i \in 1..Len(obj.c) :
             obj.c[i].key = key /\ \A j \in (i + 1)..Len(obj.c) : obj.c[j].key # key
  IN  obj.c[i].val

RECURSIVE Marshal(_)
RECURSIVE MarshalElements(_, _)
RECURSIVE MarshalMembers(_, _)

\* json.Marshal of a decoded value (an any): a map is written with its keys
\* sorted, each key once; a nil any is written null.
Marshal(v) ==
  IF v.k = "null" THEN <<"null">>
  ELSE IF v.k = "bool" THEN v.c
  ELSE IF v.k = "str" THEN <<"q">> \o v.c \o <<"q">>
  ELSE IF v.k = "arr" THEN <<"[">> \o MarshalElements(v, 1) \o <<"]">>
  ELSE <<"{">> \o MarshalMembers(v, 1) \o <<"}">>

MarshalElements(v, i) ==
  IF i > Len(v.c) THEN <<>> ELSE Marshal(v.c[i]) \o MarshalElements(v, i + 1)

MarshalMembers(v, i) ==
  IF i > Len(KeyOrder) THEN <<>>
  ELSE (IF HasKey(v, KeyOrder[i])
        THEN <<KeyOrder[i]>> \o Marshal(Get(v, KeyOrder[i]))
        ELSE <<>>) \o MarshalMembers(v, i + 1)

\* ----------------------------------------------------------- extraction

RECURSIVE ExtractScan(_, _, _, _)
RECURSIVE ExtractScan_Balanced(_, _, _, _)

\* A loop that returns the candidate as soon as the braces balance, without
\* asking whether it is JSON.
ExtractScan_Balanced(input, start, i, depth) ==
  IF i > Len(input) THEN <<>>
  ELSE IF input[i] = "{" THEN ExtractScan_Balanced(input, start, i + 1, depth + 1)
  ELSE IF input[i] = "}" THEN
    IF depth - 1 = 0
    THEN SubSeq(input, start, i)
    ELSE ExtractScan_Balanced(input, start, i + 1, depth - 1)
  ELSE ExtractScan_Balanced(input, start, i + 1, depth)

\* The loop of ExtractJSONFromString from position i on, braceCount = depth.
ExtractScan(input, start, i, depth) ==
  IF i > Len(input) THEN <<>>
  ELSE IF input[i] = "{" THEN ExtractScan(input, start, i + 1, depth + 1)
  ELSE IF input[i] = "}" THEN
    IF depth - 1 = 0 /\ JSONValid(SubSeq(input, start, i))
    THEN SubSeq(input, start, i)
    ELSE ExtractScan(input, start, i + 1, depth - 1)
  ELSE ExtractScan(input, start, i + 1, depth)

\* A scan that starts one byte late, past the brace that Index found.
ExtractJSONFromString_StartLate(input) ==
  LET start == IndexFrom(input, "{", 1)
  IN  IF start = 0 THEN <<>> ELSE ExtractScan(input, start + 1, start + 1, 0)

ExtractJSONFromString(input) ==
  LET start == IndexFrom(input, "{", 1)
  IN  IF start = 0 THEN <<>> ELSE ExtractScan(input, start, start, 0)

\* ------------------------------------------------------------ validation

\* A JSON Schema of the shape the tests use: the root is an object and the
\* listed properties are required strings.  ok = FALSE is a schema document
\* that does not load.
Schema(ok, required) == [ok |-> ok, required |-> required]

\* res.Valid() of gojsonschema.Validate for a document v.
SchemaValid(schema, v) ==
  /\ v.k = "obj"
  /\ \A key \in schema.required : HasKey(v, key) /\ Get(v, key).k = "str"

ValidateRawJSON(data, schema) ==
  IF ~schema.ok \/ ~JSONValid(data) THEN "load error"
  ELSE IF ~SchemaValid(schema, JSONParse(data).v) THEN "ErrInvalidOutput"
  ELSE "nil"

\* An input value json.Marshal cannot encode (a channel, a func).
Unmarshalable == [k |-> "chan", c |-> <<>>]

\* An Invoke that does not validate its input.
ValidateJSON_Skip(in, schema) == "nil"

ValidateJSON(in, schema) ==
  IF in.k = "chan" THEN "json marshal error"
  ELSE ValidateRawJSON(Marshal(in), schema)

\* json.Unmarshal(data, out) for out = &Output{Result string}: the target after
\* the call and the error.  A null document or member leaves the target alone;
\* a member of another type is an UnmarshalTypeError and the field is not set.
DecodeOutput(data, target) ==
  LET p == JSONParse(data)
  IN  IF ~p.ok THEN [err |-> "json syntax error", out |-> target]
      ELSE IF p.v.k = "null" THEN [err |-> "nil", out |-> target]
      ELSE IF p.v.k # "obj" THEN [err |-> "json type error", out |-> target]
      ELSE IF ~HasKey(p.v, "result") \/ Get(p.v, "result").k = "null"
        THEN [err |-> "nil", out |-> target]
      ELSE IF Get(p.v, "result").k = "str"
        THEN [err |-> "nil", out |-> Get(p.v, "result").c]
      ELSE [err |-> "json type error", out |-> target]

\* Decoding before validation.
UnmarshalValidate_DecodeFirst(data, target, schema) ==
  LET d == DecodeOutput(data, target)
  IN  IF d.err # "nil" THEN [err |-> d.err, out |-> d.out, decoded |-> TRUE]
      ELSE [err |-> ValidateRawJSON(data, schema), out |-> d.out, decoded |-> TRUE]

\* The result of UnmarshalValidate: its error, the target after the call, and
\* whether the target was handed to the decoder.
UnmarshalValidate(data, target, schema) ==
  LET e == ValidateRawJSON(data, schema)
  IN  IF e # "nil" THEN [err |-> e, out |-> target, decoded |-> FALSE]
      ELSE LET d == DecodeOutput(data, target)
           IN  [err |-> d.err, out |-> d.out, decoded |-> TRUE]

\* The reply validated as it came, without extraction.
unmarshalOutput_NoExtract(text, target, schema) ==
  LET r == UnmarshalValidate(text, target, schema)
  IN  [err |-> r.err, out |-> r.out, decoded |-> r.decoded, data |-> text]

unmarshalOutput(text, target, schema) ==
  LET data == ExtractJSONFromString(text)
  IN  IF data = <<>>
      THEN [err |-> "ErrInvalidOutput", out |-> target, decoded |-> FALSE, data |-> <<>>]
      ELSE LET r == UnmarshalValidate(data, target, schema)
           IN  [err |-> r.err, out |-> r.out, decoded |-> r.decoded, data |-> data]

\* --------------------------------------------------------- tool response

ZeroResponse == [Done |-> FALSE, Out |-> JNull, Name |-> <<>>, Args |-> JNull]

Field(obj, key) == IF HasKey(obj, key) THEN Get(obj, key) ELSE JNull

\* json.Unmarshal(rawJSON, &resp) for a fresh ToolResponse: done must be a
\* bool and name a string (null or absent leaves the zero value); out and args
\* take any value.
UnmarshalToolResponse(rawJSON) ==
  LET p == JSONParse(rawJSON)
      o == p.v
  IN  IF ~p.ok THEN [err |-> "invalid JSON format", resp |-> ZeroResponse]
      ELSE IF o.k = "null" THEN [err |-> "nil", resp |-> ZeroResponse]
      ELSE IF o.k # "obj" THEN [err |-> "invalid JSON format", resp |-> ZeroResponse]
      ELSE IF \/ Field(o, "done").k \notin {"bool", "null"}
              \/ Field(o, "name").k \notin {"str", "null"}
        THEN [err |-> "invalid JSON format", resp |-> ZeroResponse]
      ELSE [err |-> "nil",
            resp |-> [Done |-> Field(o, "done").k = "bool" /\ Field(o, "done").c = <<"true">>,
                      Out |-> Field(o, "out"),
                      Name |-> IF Field(o, "name").k = "str" THEN Field(o, "name").c ELSE <<>>,
                      Args |-> Field(o, "args")]]

\* What the loop hands to unmarshalOutput for a done reply: resp.Out,
\* serialized again (reply is the text the response was read from).
FinalText(resp, reply) == Marshal(resp.Out)

\* A loop that hands any name and args to the decoder.
CheckToolCall_None(resp) == "nil"

\* The name and args checks of the agent loop on a reply that is not done.
CheckToolCall(resp) ==
  IF resp.Name = <<>> THEN "tool response missing 'name'"
  ELSE IF resp.Args.k = "null" THEN "tool missing 'args'"
  ELSE "nil"

\* The output turn without the tool's name, as an earlier callTool wrote it.
callTool_NoName(name, outcome) ==
  IF outcome.err # "nil" THEN <<"ERR: ", outcome.err>>
  ELSE <<"OUTPUT: ">> \o Marshal(outcome.result)

\* A tool error written like an output.
callTool_NoErr(name, outcome) == name \o <<" OUTPUT: ">> \o Marshal(outcome.result)

\* The turn callTool makes of the tool invoker's outcome.
callTool(name, outcome) ==
  IF outcome.err # "nil" THEN <<"ERR: ", outcome.err>>
  ELSE name \o <<" OUTPUT: ">> \o Marshal(outcome.result)

\* ---------------------------------------------------------------- prompt

\* The prompt in the order of the earlier getPrompt: the user prompt second,
\* the input before the tools.
Build_getPrompt(buf, userPrompt, r) ==
  buf
  \o (IF r.Instructions # <<>> THEN <<"[SYSTEM INSTRUCTIONS]">> \o r.Instructions ELSE <<>>)
  \o <<"[USER PROMPT]">> \o userPrompt
  \o (IF r.ToolSpecs > 0 THEN <<"[WORKFLOW]">> ELSE <<>>)
  \o (IF ~r.SkipInput
      THEN <<"[INPUT]:">> \o (IF r.Input.k = "chan" THEN <<>> ELSE Marshal(r.Input))
      ELSE <<>>)
  \o (IF r.ToolSpecs > 0 THEN <<"[TOOLS]">> \o [i \in 1..r.ToolSpecs |-> "Tool:"] ELSE <<>>)
  \o <<"[OUTPUT FORMAT]", IF r.ToolSpecs > 0 THEN "tool call or done" ELSE "single answer">>
  \o <<"[GUIDELINES]:">>

\* A Build that takes the tool mode from req.ToolInvoker, as getPrompt did,
\* and writes the input whatever SkipInput says.
Build_ByToolInvoker(buf, userPrompt, r) ==
  buf
  \o (IF r.Instructions # <<>> THEN <<"[SYSTEM INSTRUCTIONS]">> \o r.Instructions ELSE <<>>)
  \o (IF r.ToolInvoker THEN <<"[WORKFLOW]">> ELSE <<>>)
  \o (IF r.ToolSpecs > 0 THEN <<"[TOOLS]">> \o [i \in 1..r.ToolSpecs |-> "Tool:"] ELSE <<>>)
  \o <<"[INPUT]:">> \o (IF r.Input.k = "chan" THEN <<>> ELSE Marshal(r.Input))
  \o <<"[OUTPUT FORMAT]", IF r.ToolInvoker THEN "tool call or done" ELSE "single answer">>
  \o <<"[GUIDELINES]:">>
  \o <<"[USER PROMPT]">> \o userPrompt

\* var pb PromptBuilder: a builder with an empty buffer.
NewPromptBuilder == <<>>

\* PromptBuilder.Build on a builder whose buffer holds buf: the sections are
\* written to the buffer in this order, each a header token followed by its
\* content, and the whole buffer is returned.
Build(buf, userPrompt, r) ==
  buf
  \o (IF r.Instructions # <<>> THEN <<"[SYSTEM INSTRUCTIONS]">> \o r.Instructions ELSE <<>>)
  \o (IF r.ToolSpecs > 0 THEN <<"[WORKFLOW]">> ELSE <<>>)
  \o (IF r.ToolSpecs > 0 THEN <<"[TOOLS]">> \o [i \in 1..r.ToolSpecs |-> "Tool:"] ELSE <<>>)
  \o (IF ~r.SkipInput
      THEN <<"[INPUT]:">> \o (IF r.Input.k = "chan" THEN <<>> ELSE Marshal(r.Input))
      ELSE <<>>)
  \o <<"[OUTPUT FORMAT]", IF r.ToolSpecs > 0 THEN "tool call or done" ELSE "single answer">>
  \o <<"[GUIDELINES]:">>
  \o <<"[USER PROMPT]">> \o userPrompt

\* compilePrompt: html/template's Parse and Execute of req.PromptTemplate.
compilePrompt(r) ==
  IF r.PromptTemplate = "unparsable" THEN [err |-> "template parse", prompt |-> <<>>]
  ELSE IF r.PromptTemplate = "unexecutable" THEN [err |-> "template execute", prompt |-> <<>>]
  ELSE [err |-> "nil", prompt |-> <<"Hello">>]

preparePrompt(r) ==
  LET c == compilePrompt(r)
  IN  IF c.err # "nil" THEN c
      ELSE [err |-> "nil", prompt |-> Build(NewPromptBuilder, c.prompt, r)]

\* --------------------------------------------------------------- inputs

\* The cap on backend calls of one Invoke.
MaxCalls == 3

InputSchema == Schema(TRUE, {"name"})

Inputs ==
  { JObj(<<[key |-> "name", val |-> JStr(<<"Pluto">>)]>>), JNull, Unmarshalable }

\* The output schemas: the tests' (result is a required string), a stricter
\* one, and a document that does not load.  Each describes the target's type,
\* as the schema generated for an output message does.
OutputSchemas ==
  { Schema(TRUE, {"result"}), Schema(TRUE, {"result", "name"}), Schema(FALSE, {}) }

\* What the request's ToolUnmarshaller accepts: "tool1" only, as the tool-call
\* test's decoder, or every name and args, as the cancellation test's.
Decoders == {"tool1 only", "all"}

ToolUnmarshaller(r, name, rawArgs) ==
  IF r.Decoder = "all" \/ name = <<"tool1">> THEN "nil" ELSE "unexpected tool"

\* req.Instructions: none, or a system text.
Instructions == { <<>>, <<"be", "brief">> }

Requests ==
  [ ToolInvoker : BOOLEAN, ToolSpecs : {0, 1}, Decoder : Decoders,
    Instructions : Instructions, SkipInput : {FALSE},
    PromptTemplate : {"ok", "unparsable", "unexecutable"},
    Input : Inputs, InputSchema : {InputSchema}, OutputSchema : OutputSchemas ]

ResultObj == <<"{", "result", "q", "x", "q", "}">>

ToolCall(name) == <<"{", "name", "q">> \o name \o <<"q", "args", "{", "}", "}">>

\* The texts the backend answers with.
Replies ==
  { <<"not", "a", "json">>,
    ResultObj,
    <<"w">> \o ResultObj \o <<"w">>,
    <<"{", "}">>,
    <<"{", "result", "true", "}">>,
    <<"{", "w", "}">> \o ResultObj,
    <<"{", "name", "q", "n", "q", "result", "q", "x", "q", "}">>,
    <<"w", "{", "done", "false">> \o Tail(ToolCall(<<"tool1">>)),
    ToolCall(<<"tool2">>),
    ToolCall(<<>>),
    <<"{", "name", "q", "tool1", "q", "}">>,
    <<"{", "name", "q", "tool1", "q", "args", "null", "}">>,
    <<"{", "done", "q", "yes", "q", "}">>,
    <<"{", "done", "true", "}">>,
    <<"{", "done", "true", "out">> \o ResultObj \o <<"}">>,
    <<"{", "done", "true", "out", "{", "}", "}">>,
    <<"{", "done", "true", "out", "{", "result", "true", "}", "}">>,
    <<"{", "done", "true", "out", "[">> \o ResultObj \o <<"]", "}">>,
    <<"{", "done", "true", "name", "q", "{", "q", "out", "{", "result", "q", "}", "q", "}", "}">>,
    <<"{", "done", "true", "name", "q", "tool1", "q", "args", "{", "}", "out">>
      \o ResultObj \o <<"}">> }

\* What the tool invoker returns.
ToolOutcomes ==
  { [err |-> "nil", result |-> JObj(<<[key |-> "result", val |-> JStr(<<"ok">>)]>>)],
    [err |-> "tool failed", result |-> JNull] }

\* ---------------------------------------------------------------- state

VARIABLES
  req,          \* the Request of this Invoke
  pc,           \* where Invoke is: init, backend, poll, decoder, tool, done
  cancelled,    \* ctx.Done() is closed
  messages,     \* the chat session's history
  out,          \* the reply the loop is working on
  resp,         \* the tool response of the current iteration
  output,       \* req.Output: the Result field of the target
  err,          \* what Invoke returned, once pc = "done"
  backendCalls, \* calls of the invoker issued
  decoderCalls, \* names the ToolUnmarshaller was called with
  toolCalls,    \* names the ToolInvoker was called with
  toolResults,  \* what the ToolInvoker returned, call by call
  final,        \* what the final-answer step did: payload, decoded, ran
  cancelPc,     \* pc at the moment of cancellation
  cancelCalls,  \* backendCalls at the moment of cancellation
  system,       \* the chat session's instructions
  calls,        \* the arguments of each call of the invoker, in order
  entry,        \* the history and text at the last entry of ChatSession.Invoke
  sessions,     \* the chat sessions allocated by the Invokes of one Runtime
  sessRef,      \* each Invoke's local sess: the address of its session
  ipc,          \* where each of the concurrent Invokes is
  icalls,       \* the histories each Invoke's backend calls received
  extractIn,    \* the input of ExtractJSONFromString
  extracted,    \* what ExtractJSONFromString returned for extractIn
  again,        \* what it returned for extracted
  pb,           \* the buffer of a PromptBuilder
  prompts,      \* the calls of Build on pb: arguments and returned prompt
  allMessages,  \* spec.Messages: each message's fields, by their types
  enums,        \* the names of spec.Enums
  schemas,      \* gen.schemas: the schemas generated so far, by message
  stack,        \* the calls of generateJSONSchema in progress, outermost first
  genErr        \* the error of Validate or of the generation

vars ==
  <<req, pc, cancelled, messages, out, resp, output, err, backendCalls,
    decoderCalls, toolCalls, toolResults, final, cancelPc, cancelCalls,
    system, calls, entry, sessions, sessRef, ipc, icalls,
    extractIn, extracted, again, pb, prompts,
    allMessages, enums, schemas, stack, genErr>>

\* The state of the schema generator.
genVars == <<allMessages, enums, schemas, stack, genErr>>

\* No specification is loaded and no generator runs.
InitGenVars ==
  /\ allMessages = <<>>
  /\ enums = {}
  /\ schemas = <<>>
  /\ stack = <<>>
  /\ genErr = "nil"

\* The state of the utilities exercised on their own.
pureVars ==
  <<extractIn, extracted, again, pb, prompts,
    allMessages, enums, schemas, stack, genErr>>

InitPureVars ==
  /\ extractIn = <<>>
  /\ extracted = <<>>
  /\ again = <<>>
  /\ pb = <<>>
  /\ prompts = <<>>
  /\ InitGenVars

\* The state of several Invokes on one Runtime.
concVars == <<sessions, sessRef, ipc, icalls>>

\* The Invokes that share the Runtime.
NumInvocations == 2

Invocations == 1..NumInvocations

InitConcVars ==
  /\ sessions = <<>>
  /\ sessRef = [i \in Invocations |-> 0]
  /\ ipc = [i \in Invocations |-> "init"]
  /\ icalls = [i \in Invocations |-> <<>>]

NoEntry == [messages |-> <<>>, text |-> <<>>, ncalls |-> 0]

NoFinal == [ran |-> FALSE, data |-> <<>>, decoded |-> FALSE, before |-> <<>>]

Init ==
  /\ req \in Requests
  /\ pc = "init"
  /\ cancelled = FALSE
  /\ messages = <<>>
  /\ out = <<>>
  /\ resp = ZeroResponse
  /\ output = <<"old">>
  /\ err = "nil"
  /\ backendCalls = 0
  /\ decoderCalls = <<>>
  /\ toolCalls = <<>>
  /\ toolResults = <<>>
  /\ final = NoFinal
  /\ cancelPc = "none"
  /\ cancelCalls = 0
  /\ system = <<>>
  /\ calls = <<>>
  /\ entry = NoEntry
  /\ InitConcVars
  /\ InitPureVars

Message(role, content) == [Role |-> role, Content |-> content]

\* NewChatSession(invoker, instructions): an empty history under the given
\* instructions.
NewChatSession(instructions) == [system |-> instructions, messages |-> <<>>]

\* An Add that starts the history over.
Add_Restart(msgs, msg) == <<msg>>

\* ChatSession.Add
Add(msgs, msg) == Append(msgs, msg)

\* A session that hands no instructions on, as one whose constructor drops them.
InvokerCall_NoSystem(sys, msgs) == [system |-> <<>>, messages |-> msgs]

\* What ChatSession.Invoke hands to the invoker: chat.system, chat.messages.
InvokerCall(sys, msgs) == [system |-> sys, messages |-> msgs]

\* An Invoke that adds the text it is given as a system turn.
SessionCall_SystemRole(sys, msgs, text) ==
  /\ messages' = Add(msgs, Message("system", text))
  /\ calls' = Append(calls, InvokerCall(sys, messages'))
  /\ entry' = [messages |-> msgs, text |-> text, ncalls |-> Len(calls)]
  /\ backendCalls' = backendCalls + 1

\* An Invoke that calls the invoker before it adds the user turn.
SessionCall_CallFirst(sys, msgs, text) ==
  /\ messages' = Add(msgs, Message("user", text))
  /\ calls' = Append(calls, InvokerCall(sys, msgs))
  /\ entry' = [messages |-> msgs, text |-> text, ncalls |-> Len(calls)]
  /\ backendCalls' = backendCalls + 1

\* ChatSession.Invoke up to its call of the invoker, on session (sys, msgs):
\* the user turn is added, then the invoker gets the session.
SessionCall(sys, msgs, text) ==
  /\ messages' = Add(msgs, Message("user", text))
  /\ calls' = Append(calls, InvokerCall(sys, messages'))
  /\ entry' = [messages |-> msgs, text |-> text, ncalls |-> Len(calls)]
  /\ backendCalls' = backendCalls + 1

\* An Invoke that adds the agent turn before it looks at the error.
SessionMessages_AlwaysAppend(msgs, reply, e) == Add(msgs, Message("agent", reply))

\* ChatSession.Invoke after the invoker returned (reply, e): the history.
SessionMessages(msgs, reply, e) ==
  IF e # "nil" THEN msgs ELSE Add(msgs, Message("agent", reply))

\* ChatSession.Invoke after the invoker returned (reply, e): what it returns.
SessionResult(reply, e) ==
  IF e # "nil" THEN [out |-> <<>>, err |-> e] ELSE [out |-> reply, err |-> "nil"]

\* The error of a failing invoker.
InvokerErrors == {"backend failed"}

\* Invoke returns e.
Return(e) ==
  /\ pc' = "done"
  /\ err' = e

\* A final-answer step that decodes the answer and goes round the loop again
\* instead of returning.
Finish_Continue(text) ==
  LET r == unmarshalOutput(text, output, req.OutputSchema)
  IN  /\ pc' = "poll"
      /\ err' = r.err
      /\ output' = r.out
      /\ final' = [ran |-> TRUE, data |-> r.data, decoded |-> r.decoded, before |-> output]

\* A final-answer step that treats an answer failing validation as a tool
\* result still to be fed back to the backend.
Finish_Retry(text) ==
  LET r == unmarshalOutput(text, output, req.OutputSchema)
  IN  /\ pc' = IF r.err = "nil" THEN "done" ELSE "tool"
      /\ err' = r.err
      /\ output' = r.out
      /\ final' = [ran |-> TRUE, data |-> r.data, decoded |-> r.decoded, before |-> output]

\* The final-answer step: unmarshalOutput on text, then Invoke returns.
Finish(text) ==
  LET r == unmarshalOutput(text, output, req.OutputSchema)
  IN  /\ Return(r.err)
      /\ output' = r.out
      /\ final' = [ran |-> TRUE, data |-> r.data, decoded |-> r.decoded, before |-> output]

\* ctx is cancelled by its owner, at any moment before Invoke has returned.
Cancel ==
  /\ UNCHANGED concVars
  /\ UNCHANGED pureVars
  /\ pc # "done"
  /\ ~cancelled
  /\ cancelled' = TRUE
  /\ cancelPc' = pc
  /\ cancelCalls' = backendCalls
  /\ UNCHANGED <<req, pc, messages, out, resp, output, err, backendCalls,
                 decoderCalls, toolCalls, toolResults, final, system, calls, entry>>

\* Runtime.Invoke up to the first backend call: input validation, the prompt,
\* the session, and ChatSession.Invoke's user turn.
InvokeStart ==
  /\ UNCHANGED concVars
  /\ UNCHANGED pureVars
  /\ pc = "init"
  /\ LET v == ValidateJSON(req.Input, req.InputSchema)
         p == preparePrompt(req)
         sess == NewChatSession(req.Instructions)
         idle == UNCHANGED <<messages, backendCalls, system, calls, entry>>
     IN  IF v # "nil" THEN Return(v) /\ idle
         ELSE IF p.err # "nil" THEN Return(p.err) /\ idle
         ELSE /\ system' = sess.system
              /\ SessionCall(sess.system, sess.messages, p.prompt)
              /\ pc' = "backend"
              /\ err' = err
  /\ UNCHANGED <<req, cancelled, out, resp, output, decoderCalls, toolCalls,
                 toolResults, final, cancelPc, cancelCalls>>

\* An Invoke that looks at ctx when the reply has come, with or without a
\* ToolInvoker.
BackendReply_Poll ==
  /\ UNCHANGED concVars
  /\ UNCHANGED pureVars
  /\ pc = "backend"
  /\ \E reply \in Replies :
       /\ messages' = SessionMessages(messages, reply, "nil")
       /\ out' = SessionResult(reply, "nil").out
       /\ IF backendCalls = 1 /\ ~req.ToolInvoker
          THEN IF cancelled
               THEN Return("context.Canceled") /\ UNCHANGED <<output, final>>
               ELSE Finish(reply)
          ELSE pc' = "poll" /\ UNCHANGED <<err, output, final>>
  /\ UNCHANGED <<req, cancelled, resp, backendCalls, decoderCalls, toolCalls,
                 toolResults, cancelPc, cancelCalls, system, calls, entry>>

\* The invoker returns a reply: ChatSession.Invoke appends the agent turn;
\* without a ToolInvoker the reply is the final answer, else the loop polls.
BackendReply ==
  /\ UNCHANGED concVars
  /\ UNCHANGED pureVars
  /\ pc = "backend"
  /\ \E reply \in Replies :
       /\ messages' = SessionMessages(messages, reply, "nil")
       /\ out' = SessionResult(reply, "nil").out
       /\ IF backendCalls = 1 /\ ~req.ToolInvoker
          THEN Finish(reply)
          ELSE pc' = "poll" /\ UNCHANGED <<err, output, final>>
  /\ UNCHANGED <<req, cancelled, resp, backendCalls, decoderCalls, toolCalls,
                 toolResults, cancelPc, cancelCalls, system, calls, entry>>

\* An Invoke that returns an error of its own for a failed backend call,
\* without the invoker's error in it.
BackendFail_Opaque ==
  /\ UNCHANGED concVars
  /\ UNCHANGED pureVars
  /\ pc = "backend"
  /\ \E e \in InvokerErrors :
       /\ messages' = SessionMessages(messages, <<>>, e)
       /\ Return("invoke session failed")
  /\ UNCHANGED <<req, cancelled, out, resp, output, backendCalls,
                 decoderCalls, toolCalls, toolResults, final, cancelPc, cancelCalls,
                 system, calls, entry>>

\* An Invoke that answers a failed backend call by issuing the call again.
BackendFail_Retry ==
  /\ UNCHANGED concVars
  /\ UNCHANGED pureVars
  /\ pc = "backend"
  /\ backendCalls < MaxCalls
  /\ SessionCall(system, SessionMessages(messages, <<>>, "backend failed"), entry.text)
  /\ pc' = "backend"
  /\ UNCHANGED <<req, cancelled, out, resp, output, err, decoderCalls,
                 toolCalls, toolResults, final, cancelPc, cancelCalls, system>>

\* The invoker fails: Invoke returns its error, wrapped when in the loop.
BackendFail ==
  /\ UNCHANGED concVars
  /\ UNCHANGED pureVars
  /\ pc = "backend"
  /\ \E e \in InvokerErrors :
       /\ messages' = SessionMessages(messages, <<>>, e)
       /\ Return(IF backendCalls = 1 THEN SessionResult(<<>>, e).err
                 ELSE "invoke session after tool: " \o SessionResult(<<>>, e).err)
  /\ UNCHANGED <<req, cancelled, out, resp, output, backendCalls,
                 decoderCalls, toolCalls, toolResults, final, cancelPc, cancelCalls,
                 system, calls, entry>>

\* A loop that decodes every reply into the one ToolResponse it keeps across
\* iterations, as the earlier agentLoop: a field the reply lacks keeps the
\* value an earlier reply gave it.
parseToolResponse_Stale(raw) ==
  LET rawJSON == ExtractJSONFromString(raw)
      p == JSONParse(rawJSON)
      o == p.v
  IN  IF rawJSON = <<>> THEN [err |-> "no valid JSON found in response", resp |-> resp]
      ELSE IF UnmarshalToolResponse(rawJSON).err # "nil" \/ o.k = "null"
        THEN [err |-> UnmarshalToolResponse(rawJSON).err, resp |-> resp]
      ELSE [err |-> "nil",
            resp |-> [Done |-> IF Field(o, "done").k = "bool"
                               THEN Field(o, "done").c = <<"true">> ELSE resp.Done,
                      Out |-> IF HasKey(o, "out") THEN Get(o, "out") ELSE resp.Out,
                      Name |-> IF Field(o, "name").k = "str"
                               THEN Field(o, "name").c ELSE resp.Name,
                      Args |-> IF HasKey(o, "args") THEN Get(o, "args") ELSE resp.Args]]

parseToolResponse(raw) ==
  LET rawJSON == ExtractJSONFromString(raw)
  IN  IF rawJSON = <<>> THEN [err |-> "no valid JSON found in response", resp |-> ZeroResponse]
      ELSE UnmarshalToolResponse(rawJSON)

\* A loop that never looks at ctx.
PollCancelled_Never == FALSE

\* A poll placed after the reply has been read as a tool response.
PollCancelled_AfterParse == cancelled /\ parseToolResponse(out).err = "nil"

\* The select on ctx.Done() at the top of an iteration.
PollCancelled == cancelled

\* A loop that gives up after two replies.
LoopCondition_Capped(n) == n <= 2

\* The condition of agentLoop's for statement, n replies received: none.
LoopCondition(n) == TRUE

\* One iteration of agentLoop from its top to the next collaborator call.
LoopPoll ==
  /\ UNCHANGED concVars
  /\ UNCHANGED pureVars
  /\ pc = "poll"
  /\ LET p == parseToolResponse(out)
     IN  IF ~LoopCondition(Len(messages) \div 2)
           THEN Return("loop ended") /\ UNCHANGED <<resp, output, final, decoderCalls>>
         ELSE IF PollCancelled
           THEN Return("context.Canceled") /\ UNCHANGED <<resp, output, final, decoderCalls>>
         ELSE IF p.err # "nil"
           THEN Return(p.err) /\ UNCHANGED <<resp, output, final, decoderCalls>>
         ELSE IF p.resp.Done
           THEN Finish(FinalText(p.resp, out)) /\ resp' = p.resp /\ UNCHANGED decoderCalls
         ELSE IF CheckToolCall(p.resp) # "nil"
           THEN Return(CheckToolCall(p.resp)) /\ resp' = p.resp
                /\ UNCHANGED <<output, final, decoderCalls>>
         ELSE /\ resp' = p.resp
              /\ decoderCalls' = Append(decoderCalls, p.resp.Name)
              /\ pc' = "decoder"
              /\ UNCHANGED <<err, output, final>>
  /\ UNCHANGED <<req, cancelled, messages, out, backendCalls, toolCalls,
                 toolResults, cancelPc, cancelCalls, system, calls, entry>>

\* A loop that starts the tool and asks the backend again without waiting
\* for the tool's result.
DecoderReturn_Async ==
  /\ UNCHANGED concVars
  /\ UNCHANGED pureVars
  /\ pc = "decoder"
  /\ backendCalls < MaxCalls
  /\ toolCalls' = Append(toolCalls, resp.Name)
  /\ SessionCall(system, messages, <<>>)
  /\ pc' = "backend"
  /\ UNCHANGED <<req, cancelled, out, resp, output, err, decoderCalls,
                 toolResults, final, cancelPc, cancelCalls, system>>

\* req.ToolUnmarshaller returns; on success the tool invoker is called.
DecoderReturn ==
  /\ UNCHANGED concVars
  /\ UNCHANGED pureVars
  /\ pc = "decoder"
  /\ LET e == ToolUnmarshaller(req, resp.Name, Marshal(resp.Args))
     IN  IF e # "nil"
         THEN Return("tool unmarshal: " \o e) /\ UNCHANGED toolCalls
         ELSE /\ toolCalls' = Append(toolCalls, resp.Name)
              /\ pc' = "tool"
              /\ err' = err
  /\ UNCHANGED <<req, cancelled, messages, out, resp, output, backendCalls,
                 decoderCalls, toolResults, final, cancelPc, cancelCalls,
                 system, calls, entry>>

\* req.ToolInvoker returns: callTool makes the turn and ChatSession.Invoke
\* appends it as a user turn and calls the invoker.
ToolReturn ==
  /\ UNCHANGED concVars
  /\ UNCHANGED pureVars
  /\ pc = "tool"
  /\ backendCalls < MaxCalls
  /\ \E outcome \in ToolOutcomes :
       /\ toolResults' = Append(toolResults, outcome)
       /\ SessionCall(system, messages, callTool(resp.Name, outcome))
  /\ pc' = "backend"
  /\ UNCHANGED <<req, cancelled, out, resp, output, err, decoderCalls,
                 toolCalls, final, cancelPc, cancelCalls, system>>

Next ==
  \/ Cancel
  \/ InvokeStart
  \/ BackendReply
  \/ BackendFail
  \/ LoopPoll
  \/ DecoderReturn
  \/ ToolReturn

Spec == Init /\ [][Next]_vars

\* One decoder, one output schema, no instructions: the requests of the
\* runs whose termination is checked.
LiveRequests ==
  { r \in Requests : /\ r.Decoder = "tool1 only"
                     /\ r.Instructions = <<>>
                     /\ r.PromptTemplate = "ok"
                     /\ r.OutputSchema = Schema(TRUE, {"result"}) }

InitLive ==
  /\ Init
  /\ req \in LiveRequests

\* Every collaborator call returns (the invoker, the tool decoder, the tool
\* invoker) and Invoke takes its own steps.  Invoke is one sequential flow:
\* at each position one step of it, or the return of the one call it waits
\* for, is possible, and besides that only the single cancellation of ctx;
\* so this is the run going on for as long as a step is possible.
SpecLive ==
  /\ InitLive
  /\ [][Next]_vars
  /\ WF_vars(Next)

\* ------------------------------------------------------ the chat session

\* A chat session on its own, under any sequence of Add and Invoke.
MaxMessages == 4

ChatTexts == { <<"hi">>, <<"ok">> }

ChatMessages == { Message(role, text) : role \in {"system", "agent", "user"}, text \in ChatTexts }

runtimeVars ==
  <<req, cancelled, resp, output, decoderCalls, toolCalls, toolResults, final,
    cancelPc, cancelCalls, system>>

InitChat ==
  /\ req \in { r \in Requests : /\ ~r.ToolInvoker /\ r.ToolSpecs = 0
                                /\ r.Decoder = "all" /\ r.PromptTemplate = "ok"
                                /\ r.Input.k = "obj" /\ r.OutputSchema.ok
                                /\ r.OutputSchema.required = {"result"} }
  /\ pc = "idle"
  /\ cancelled = FALSE
  /\ LET sess == NewChatSession(req.Instructions)
     IN  system = sess.system /\ messages = sess.messages
  /\ out = <<>>
  /\ resp = ZeroResponse
  /\ output = <<"old">>
  /\ err = "nil"
  /\ backendCalls = 0
  /\ decoderCalls = <<>>
  /\ toolCalls = <<>>
  /\ toolResults = <<>>
  /\ final = NoFinal
  /\ cancelPc = "none"
  /\ cancelCalls = 0
  /\ calls = <<>>
  /\ entry = NoEntry
  /\ InitConcVars
  /\ InitPureVars

\* chat.Add(msg)
ChatAdd ==
  /\ UNCHANGED concVars
  /\ UNCHANGED pureVars
  /\ pc = "idle"
  /\ Len(messages) < MaxMessages
  /\ \E msg \in ChatMessages : messages' = Add(messages, msg)
  /\ UNCHANGED <<pc, out, err, backendCalls, calls, entry>>
  /\ UNCHANGED runtimeVars

\* chat.Invoke(ctx, text) up to its call of the invoker.
ChatInvoke ==
  /\ UNCHANGED concVars
  /\ UNCHANGED pureVars
  /\ pc = "idle"
  /\ Len(messages) + 2 <= MaxMessages
  /\ \E text \in ChatTexts : SessionCall(system, messages, text)
  /\ pc' = "calling"
  /\ UNCHANGED <<out, err>>
  /\ UNCHANGED runtimeVars

\* The invoker returns a reply and chat.Invoke returns it.
ChatReply ==
  /\ UNCHANGED concVars
  /\ UNCHANGED pureVars
  /\ pc = "calling"
  /\ \E reply \in ChatTexts :
       /\ messages' = SessionMessages(messages, reply, "nil")
       /\ out' = SessionResult(reply, "nil").out
       /\ err' = SessionResult(reply, "nil").err
  /\ pc' = "idle"
  /\ UNCHANGED <<backendCalls, calls, entry>>
  /\ UNCHANGED runtimeVars

\* The invoker fails and chat.Invoke returns its error.
ChatFail ==
  /\ UNCHANGED concVars
  /\ UNCHANGED pureVars
  /\ pc = "calling"
  /\ \E e \in InvokerErrors :
       /\ messages' = SessionMessages(messages, <<>>, e)
       /\ out' = SessionResult(<<>>, e).out
       /\ err' = SessionResult(<<>>, e).err
  /\ pc' = "idle"
  /\ UNCHANGED <<backendCalls, calls, entry>>
  /\ UNCHANGED runtimeVars

NextChat ==
  \/ ChatAdd
  \/ ChatInvoke
  \/ ChatReply
  \/ ChatFail

SpecChat == InitChat /\ [][NextChat]_vars

\* ------------------------------------------- the utilities on their own

\* The variables of Invoke and its session, except pc.
heldVars ==
  <<req, cancelled, messages, out, resp, output, err, backendCalls,
    decoderCalls, toolCalls, toolResults, final, cancelPc, cancelCalls,
    system, calls, entry>>

\* The request of the test "basic success no tools".
BasicRequest ==
  [ ToolInvoker |-> FALSE, ToolSpecs |-> 0, Decoder |-> "all",
    Instructions |-> <<>>, SkipInput |-> FALSE, PromptTemplate |-> "ok",
    Input |-> JObj(<<[key |-> "name", val |-> JStr(<<"Pluto">>)]>>),
    InputSchema |-> InputSchema, OutputSchema |-> Schema(TRUE, {"result"}) ]

\* No Invoke is running.
InitHeld ==
  /\ req = BasicRequest
  /\ cancelled = FALSE
  /\ messages = <<>>
  /\ out = <<>>
  /\ resp = ZeroResponse
  /\ output = <<"old">>
  /\ err = "nil"
  /\ backendCalls = 0
  /\ decoderCalls = <<>>
  /\ toolCalls = <<>>
  /\ toolResults = <<>>
  /\ final = NoFinal
  /\ cancelPc = "none"
  /\ cancelCalls = 0
  /\ system = <<>>
  /\ calls = <<>>
  /\ entry = NoEntry
  /\ InitConcVars

\* ExtractJSONFromString applied to every text of at most MaxLen tokens, and
\* then to its own result.
MaxLen == 6

ExtractTokens == {"{", "}", "out", "q"}

Texts == UNION { [1..n -> ExtractTokens] : n \in 0..MaxLen }

InitExtract ==
  /\ InitHeld
  /\ pc = "extract"
  /\ extractIn \in Texts
  /\ extracted = <<>>
  /\ again = <<>>
  /\ pb = <<>>
  /\ prompts = <<>>
  /\ InitGenVars

Extract ==
  /\ pc = "extract"
  /\ extracted' = ExtractJSONFromString(extractIn)
  /\ pc' = "once"
  /\ UNCHANGED <<extractIn, again, pb, prompts>>
  /\ UNCHANGED genVars
  /\ UNCHANGED heldVars
  /\ UNCHANGED concVars

ExtractAgain ==
  /\ pc = "once"
  /\ again' = ExtractJSONFromString(extracted)
  /\ pc' = "twice"
  /\ UNCHANGED <<extractIn, extracted, pb, prompts>>
  /\ UNCHANGED genVars
  /\ UNCHANGED heldVars
  /\ UNCHANGED concVars

NextExtract ==
  \/ Extract
  \/ ExtractAgain

SpecExtract == InitExtract /\ [][NextExtract]_vars

\* The prompt rendered for a request, twice: by preparePrompt, which takes
\* a new PromptBuilder for each prompt, and by Build called again on the
\* PromptBuilder value that rendered the first prompt.
PromptRequests ==
  [ ToolInvoker : BOOLEAN, ToolSpecs : {0, 1, 2}, Decoder : {"all"},
    Instructions : Instructions, SkipInput : BOOLEAN, PromptTemplate : {"ok"},
    Input : { BasicRequest.Input, JNull }, InputSchema : {InputSchema},
    OutputSchema : { Schema(TRUE, {"result"}) } ]

UserPrompts == { <<"Hello">>, <<>> }

\* A call of Build: its arguments, what it returned, and whether its
\* builder was new.
Built(userPrompt, r, prompt, new) ==
  [userPrompt |-> userPrompt, req |-> r, prompt |-> prompt, new |-> new]

InitPrompt ==
  /\ InitHeld
  /\ pc = "build"
  /\ extractIn = <<>>
  /\ extracted = <<>>
  /\ again = <<>>
  /\ pb = NewPromptBuilder
  /\ prompts = <<>>
  /\ InitGenVars

\* Build on a new builder, as preparePrompt and the tests call it.
BuildNew ==
  /\ pc \in {"build", "built"}
  /\ \E userPrompt \in UserPrompts, r \in PromptRequests :
       /\ pb' = Build(NewPromptBuilder, userPrompt, r)
       /\ prompts' = Append(prompts, Built(userPrompt, r, pb', TRUE))
  /\ pc' = IF pc = "build" THEN "built" ELSE "rebuilt"
  /\ UNCHANGED <<extractIn, extracted, again>>
  /\ UNCHANGED genVars
  /\ UNCHANGED heldVars
  /\ UNCHANGED concVars

\* Build called again on the builder that rendered the first prompt.
BuildAgain ==
  /\ pc = "built"
  /\ \E userPrompt \in UserPrompts, r \in PromptRequests :
       /\ pb' = Build(pb, userPrompt, r)
       /\ prompts' = Append(prompts, Built(userPrompt, r, pb', FALSE))
  /\ pc' = "rebuilt"
  /\ UNCHANGED <<extractIn, extracted, again>>
  /\ UNCHANGED genVars
  /\ UNCHANGED heldVars
  /\ UNCHANGED concVars

NextPrompt ==
  \/ BuildNew
  \/ BuildAgain

SpecPrompt == InitPrompt /\ [][NextPrompt]_vars

\* ------------------------------------------- specification and JSON schema

\* A specification is modelled by its messages and enums; a message by the
\* types of its fields, in order (the name, description, repeated and
\* optional of a field decide no branch that reads another message).
MessageNames == {"A", "B"}

EnumNames == {"Color"}

\* The field types written in the specifications: a built-in type, datetime,
\* an enum, the two messages, and a name nothing declares.
Types == {"string", "datetime", "Color", "A", "B", "Z"}

MaxFields == 2

FieldLists == UNION { [1..n -> Types] : n \in 0..MaxFields }

\* The frames the goroutine stack has room for.
StackLimit == 4

isPrimitiveType(t) ==
  t \in {"string", "int", "int32", "int64", "float", "float32", "float64", "bool",
         "datetime"}

isEnumType(t) == t \in enums

\* Spec.validateMessages: every field type is primitive, an enum or a message.
validateMessages ==
  IF \E m \in DOMAIN allMessages : \E i \in 1..Len(allMessages[m]) :
       /\ ~isPrimitiveType(allMessages[m][i])
       /\ ~isEnumType(allMessages[m][i])
       /\ allMessages[m][i] \notin DOMAIN allMessages
  THEN "references undefined type"
  ELSE "nil"

\* The types fieldToSchema has a case for.
SchemaTypes == {"string", "int", "int32", "int64", "float", "float32", "float64", "bool"}

\* The schema of those cases.
BaseSchema(t) ==
  [type |-> IF t = "string" THEN "string"
            ELSE IF t \in {"int", "int32", "int64"} THEN "integer"
            ELSE IF t = "bool" THEN "boolean"
            ELSE "number"]

\* A call of generateJSONSchema in progress: the message, the field the
\* loop is at, the properties so far.
Frame(name) == [name |-> name, i |-> 1, properties |-> <<>>]

\* The frame after the schema of its current field has been set.
SetProperty(f, fieldSchema) ==
  [f EXCEPT !.properties = Append(@, fieldSchema), !.i = @ + 1]

\* gen.schemas[name] = schema
Memoize(name, schema) ==
  [n \in DOMAIN schemas \cup {name} |-> IF n = name THEN schema ELSE schemas[n]]

textVars == <<extractIn, extracted, again, pb, prompts>>

\* A specification has been read, a generator made.
InitGen ==
  /\ InitHeld
  /\ pc = "loaded"
  /\ extractIn = <<>>
  /\ extracted = <<>>
  /\ again = <<>>
  /\ pb = <<>>
  /\ prompts = <<>>
  /\ allMessages \in [MessageNames -> FieldLists]
  /\ enums = EnumNames
  /\ schemas = <<>>
  /\ stack = <<>>
  /\ genErr = "nil"

\* spec.Validate, for a specification with a version and a package and
\* without tools and agents.
Validate ==
  /\ pc = "loaded"
  /\ genErr' = validateMessages
  /\ pc' = IF genErr' = "nil" THEN "accepted" ELSE "rejected"
  /\ UNCHANGED <<allMessages, enums, schemas, stack>>
  /\ UNCHANGED textVars
  /\ UNCHANGED heldVars
  /\ UNCHANGED concVars

\* GenerateJSONSchema called for a message of the accepted specification:
\* the memoized schema, or generateJSONSchema is entered.
GenerateJSONSchema ==
  /\ pc \in {"accepted", "returned"}
  /\ \E name \in DOMAIN allMessages :
       IF name \in DOMAIN schemas
       THEN pc' = "returned" /\ stack' = stack
       ELSE pc' = "generating" /\ stack' = <<Frame(name)>>
  /\ UNCHANGED <<allMessages, enums, schemas, genErr>>
  /\ UNCHANGED textVars
  /\ UNCHANGED heldVars
  /\ UNCHANGED concVars

\* fieldToSchema for the field the innermost generateJSONSchema is at: a
\* base schema, an unknown type, the memoized schema of a message, or a
\* nested generateJSONSchema, for which the stack has room or not.
fieldToSchema ==
  /\ pc = "generating"
  /\ LET f == stack[Len(stack)]
         fields == allMessages[f.name]
         t == fields[f.i]
         idle == UNCHANGED <<pc, genErr>>
     IN  /\ f.i <= Len(fields)
         /\ IF t \in SchemaTypes
              THEN stack' = [stack EXCEPT ![Len(stack)] = SetProperty(f, BaseSchema(t))] /\ idle
            ELSE IF t \notin DOMAIN allMessages
              THEN pc' = "failed" /\ genErr' = "unknown custom type" /\ stack' = <<>>
            ELSE IF t \in DOMAIN schemas
              THEN stack' = [stack EXCEPT ![Len(stack)] = SetProperty(f, schemas[t])] /\ idle
            ELSE IF Len(stack) >= StackLimit
              THEN pc' = "overflow" /\ UNCHANGED <<stack, genErr>>
            ELSE stack' = Append(stack, Frame(t)) /\ idle
  /\ UNCHANGED <<allMessages, enums, schemas>>
  /\ UNCHANGED textVars
  /\ UNCHANGED heldVars
  /\ UNCHANGED concVars

\* generateJSONSchema is through with the fields: GenerateJSONSchema
\* memoizes the schema and returns it, to its caller's field or to the end.
generateJSONSchema ==
  /\ pc = "generating"
  /\ LET f == stack[Len(stack)]
         schema == [type |-> "object", properties |-> f.properties]
         rest == SubSeq(stack, 1, Len(stack) - 1)
     IN  /\ f.i > Len(allMessages[f.name])
         /\ schemas' = Memoize(f.name, schema)
         /\ IF rest = <<>>
            THEN pc' = "returned" /\ stack' = <<>>
            ELSE /\ pc' = pc
                 /\ stack' = [rest EXCEPT ![Len(rest)] = SetProperty(rest[Len(rest)], schema)]
  /\ UNCHANGED <<allMessages, enums, genErr>>
  /\ UNCHANGED textVars
  /\ UNCHANGED heldVars
  /\ UNCHANGED concVars

NextGen ==
  \/ Validate
  \/ GenerateJSONSchema
  \/ fieldToSchema
  \/ generateJSONSchema

SpecGen == InitGen /\ [][NextGen]_vars

\* ----------------------------------------- several Invokes on one Runtime

\* Invokes of one Runtime, started at any time and interleaved at their
\* collaborator calls.  Each message carries the Invoke that appended it.
MaxTurns == 2

seqVars ==
  <<req, pc, cancelled, messages, out, resp, output, err, backendCalls,
    decoderCalls, toolCalls, toolResults, final, cancelPc, cancelCalls,
    system, calls, entry>>

\* The replies of the backend here: a tool call, a final answer, no JSON.
ConcReplies ==
  { ToolCall(<<"tool1">>),
    <<"{", "done", "true", "out">> \o ResultObj \o <<"}">>,
    <<"not", "a", "json">> }

Owned(msg, i) == [Role |-> msg.Role, Content |-> msg.Content, by |-> i]

\* The history new, its messages past those of old marked as appended by i.
Stamp(old, new, i) ==
  [j \in 1..Len(new) |-> IF j <= Len(old) THEN new[j] ELSE Owned(new[j], i)]

\* A Runtime that keeps one session in a field and uses it in every Invoke.
AllocSession_RuntimeChat(objs) == 1

\* sess := NewChatSession(...): the address of a session object of its own.
AllocSession(objs) == Len(objs) + 1

\* A loop that talks to the Runtime's session instead of the one passed in.
LoopSession_RuntimeChat(own) == 1

\* The session agentLoop calls Invoke on: its argument sess.
LoopSession(own) == own

\* The session the pending ChatSession.Invoke of Invoke i runs on.
PendingSession(i) ==
  IF Len(icalls[i]) = 1 THEN sessRef[i] ELSE LoopSession(sessRef[i])

InitConc ==
  /\ req \in { r \in Requests : /\ r.ToolInvoker /\ r.ToolSpecs = 1
                                /\ r.Decoder = "tool1 only" /\ r.PromptTemplate = "ok"
                                /\ r.Input.k = "obj" /\ r.OutputSchema.ok
                                /\ r.OutputSchema.required = {"result"} }
  /\ pc = "idle"
  /\ cancelled = FALSE
  /\ messages = <<>>
  /\ out = <<>>
  /\ resp = ZeroResponse
  /\ output = <<"old">>
  /\ err = "nil"
  /\ backendCalls = 0
  /\ decoderCalls = <<>>
  /\ toolCalls = <<>>
  /\ toolResults = <<>>
  /\ final = NoFinal
  /\ cancelPc = "none"
  /\ cancelCalls = 0
  /\ system = <<>>
  /\ calls = <<>>
  /\ entry = NoEntry
  /\ InitConcVars
  /\ InitPureVars

\* Runtime.Invoke of i up to its first backend call.
ConcStart(i) ==
  /\ UNCHANGED pureVars
  /\ ipc[i] = "init"
  /\ LET a == AllocSession(sessions)
         new == NewChatSession(req.Instructions).messages
         objs == IF a > Len(sessions) THEN Append(sessions, new) ELSE sessions
         h == Stamp(objs[a], Add(objs[a], Message("user", preparePrompt(req).prompt)), i)
     IN  /\ sessRef' = [sessRef EXCEPT ![i] = a]
         /\ sessions' = [objs EXCEPT ![a] = h]
         /\ icalls' = [icalls EXCEPT ![i] = Append(@, InvokerCall(req.Instructions, h).messages)]
  /\ ipc' = [ipc EXCEPT ![i] = "backend"]
  /\ UNCHANGED seqVars

\* The backend answers i: the agent turn is appended and the reply is
\* classified; a well-formed tool call is decoded and the tool invoked.
ConcReply(i) ==
  /\ UNCHANGED pureVars
  /\ ipc[i] = "backend"
  /\ \E reply \in ConcReplies :
       LET a == PendingSession(i)
           p == parseToolResponse(reply)
           isCall == /\ p.err = "nil" /\ ~p.resp.Done /\ CheckToolCall(p.resp) = "nil"
                     /\ ToolUnmarshaller(req, p.resp.Name, Marshal(p.resp.Args)) = "nil"
       IN  /\ sessions' = [sessions EXCEPT
                             ![a] = Stamp(@, SessionMessages(@, reply, "nil"), i)]
           /\ ipc' = [ipc EXCEPT ![i] = IF isCall THEN "tool" ELSE "done"]
  /\ UNCHANGED <<sessRef, icalls>>
  /\ UNCHANGED seqVars

\* The backend fails i: Invoke returns the error.
ConcFail(i) ==
  /\ UNCHANGED pureVars
  /\ ipc[i] = "backend"
  /\ \E e \in InvokerErrors :
       LET a == PendingSession(i)
       IN  sessions' = [sessions EXCEPT ![a] = Stamp(@, SessionMessages(@, <<>>, e), i)]
  /\ ipc' = [ipc EXCEPT ![i] = "done"]
  /\ UNCHANGED <<sessRef, icalls>>
  /\ UNCHANGED seqVars

\* The tool of i returns: its turn goes to the session and the backend is
\* called with the history.
ConcTool(i) ==
  /\ UNCHANGED pureVars
  /\ ipc[i] = "tool"
  /\ Len(icalls[i]) < MaxTurns
  /\ \E outcome \in ToolOutcomes :
       LET a == LoopSession(sessRef[i])
           h == Stamp(sessions[a],
                      Add(sessions[a], Message("user", callTool(<<"tool1">>, outcome))), i)
       IN  /\ sessions' = [sessions EXCEPT ![a] = h]
           /\ icalls' = [icalls EXCEPT ![i] = Append(@, InvokerCall(req.Instructions, h).messages)]
  /\ ipc' = [ipc EXCEPT ![i] = "backend"]
  /\ UNCHANGED sessRef
  /\ UNCHANGED seqVars

NextConc ==
  \E i \in Invocations :
    \/ ConcStart(i)
    \/ ConcReply(i)
    \/ ConcFail(i)
    \/ ConcTool(i)

SpecConc == InitConc /\ [][NextConc]_vars

\* ------------------------------------------------------------ observation

\* The replies the backend has given so far, in order.
NumReplies == Len(messages) \div 2

AgentReply(i) == messages[2 * i].Content

\* Each reply text read as a tool response, and its extracted JSON object.
ResponseOf == [r \in Replies |-> parseToolResponse(r)]

ExtractedOf == [r \in Replies |-> ExtractJSONFromString(r)]

Response(i) == ResponseOf[AgentReply(i)]

Extracted(i) == ExtractedOf[AgentReply(i)]

\* Reply i is a well-formed tool call: done = false, a name, args, and the
\* decoder accepts them.
IsToolCall(i) ==
  LET p == Response(i)
  IN  /\ p.err = "nil"
      /\ ~p.resp.Done
      /\ p.resp.Name # <<>>
      /\ p.resp.Args.k # "null"
      /\ ToolUnmarshaller(req, p.resp.Name, Marshal(p.resp.Args)) = "nil"

\* Reply i is a done reply whose out validates against the output schema.
IsValidDone(i) ==
  LET p == Response(i)
  IN  /\ p.err = "nil"
      /\ p.resp.Done
      /\ req.OutputSchema.ok
      /\ SchemaValid(req.OutputSchema, p.resp.Out)

\* The replies are n tool calls followed by one valid done reply.
ToolCallsThenDone ==
  /\ NumReplies >= 1
  /\ \A i \in 1..(NumReplies - 1) : IsToolCall(i)
  /\ IsValidDone(NumReplies)

\* The Result a decoded object leaves in a target that held "old".
ResultOf(v) ==
  IF HasKey(v, "result") /\ Get(v, "result").k = "str" THEN Get(v, "result").c
  ELSE <<"old">>

\* What C1 promises once Invoke has returned.
C1_Outcome ==
  /\ err = "nil"
  /\ Len(toolCalls) = NumReplies - 1
  /\ \A i \in 1..(NumReplies - 1) :
       toolCalls[i] = Response(i).resp.Name
  /\ backendCalls = NumReplies
  /\ output = ResultOf(Response(NumReplies).resp.Out)

\* C1: with tools configured, n well-formed tool-call replies and
\* then a done reply whose out validates make Invoke succeed with n tool
\* invocations in reply order, n + 1 backend calls and the decoded output.
C1_Claim ==
  (pc = "done" /\ req.ToolInvoker /\ ToolCallsThenDone) => C1_Outcome


\* The backend call whose reply the poll that follows a cancellation at
\* cancelPc looks at.
PolledCall == IF cancelPc = "init" THEN 1 ELSE cancelCalls

\* C2 as stated: a cancellation signalled at any moment between the receipt
\* of a tool-call reply and the next backend call stops the loop: no further
\* backend call, and Invoke returns context.Canceled.
C2_Original ==
  (/\ req.ToolInvoker
   /\ cancelPc \in {"poll", "decoder", "tool"}
   /\ IsToolCall(cancelCalls))
  => /\ backendCalls = cancelCalls
     /\ pc = "done" => err = "context.Canceled"

\* C2, amended: a cancellation signalled before the loop's poll at the top of
\* an iteration (while the reply is awaited, or after it has arrived and
\* before it is classified) stops the loop at that poll: the reply is not
\* classified, no decoder, tool or further backend call is made, and Invoke
\* returns context.Canceled.
C2_Amended ==
  (/\ req.ToolInvoker
   /\ cancelPc \in {"init", "backend", "poll"}
   /\ NumReplies >= PolledCall)
  => /\ pc \in {"poll", "done"}
     /\ backendCalls = PolledCall
     /\ Len(decoderCalls) = PolledCall - 1
     /\ Len(toolCalls) = PolledCall - 1
     /\ pc = "done" => err = "context.Canceled"

\* Cancelled after the second reply, a tool call, arrived: the loop stopped.
C2_Witness ==
  /\ pc = "done"
  /\ cancelPc = "poll"
  /\ cancelCalls = 2
  /\ IsToolCall(2)
  /\ backendCalls = 2
  /\ Len(toolCalls) = 1
  /\ err = "context.Canceled"

\* C3: Invoke returns nil only after the payload it decoded into the target
\* passed output-schema validation, and with tools only for a done reply
\* whose out is present and validates against the output schema.
C3_Claim ==
  (pc = "done" /\ err = "nil")
  => /\ final.ran
     /\ final.decoded
     /\ req.OutputSchema.ok
     /\ SchemaValid(req.OutputSchema, JSONParse(final.data).v)
     /\ req.ToolInvoker => IsValidDone(NumReplies)

\* C4: the tool invoker is called only for replies that are tool calls the
\* decoder accepted, with the reply's name; a reply with done = false and an
\* empty name, null or absent args or rejected arguments gets no tool
\* invocation and Invoke ends in failure.
C4_ToolCallGuard ==
  /\ \A i \in 1..Len(toolCalls) :
       IsToolCall(i) /\ toolCalls[i] = Response(i).resp.Name
  /\ \A i \in 1..NumReplies :
       LET p == Response(i)
       IN  (req.ToolInvoker /\ p.err = "nil" /\ ~p.resp.Done /\ ~IsToolCall(i))
           => /\ Len(toolCalls) < i
              /\ pc \in {"poll", "decoder", "done"}
              /\ backendCalls = i
              /\ pc = "done" => err # "nil"

\* A tool call went through, then a reply without a name ended Invoke.
C4_Witness ==
  /\ pc = "done"
  /\ Len(toolCalls) = 1
  /\ NumReplies = 2
  /\ err = "tool response missing 'name'"

\* The errors the tool invoker returns.
ToolErrors == {o.err : o \in ToolOutcomes} \ {"nil"}

\* C5: a tool failure does not end Invoke: its turn "ERR: " + message is the
\* next user turn, exactly one backend call is issued for it, and Invoke never
\* returns the tool's error.
C5_ToolErrorFedBack ==
  /\ \A i \in 1..Len(toolResults) :
       toolResults[i].err # "nil"
       => /\ Len(messages) >= 2 * i + 1
          /\ messages[2 * i + 1] = Message("user", <<"ERR: ", toolResults[i].err>>)
          /\ backendCalls >= i + 1
  /\ Len(toolCalls) > Len(toolResults) => pc = "tool"
  /\ pc # "init" /\ pc # "tool" /\ NumReplies >= 1 => backendCalls = Len(toolResults) + 1
  /\ pc = "done" => err \notin ToolErrors

\* The tool failed, the backend was asked again, and Invoke then succeeded.
C5_Witness ==
  /\ pc = "done"
  /\ Len(toolResults) = 1
  /\ toolResults[1].err = "tool failed"
  /\ NumReplies = 2
  /\ err = "nil"

\* Reply i is one of the protocol errors of the agent loop.
ProtocolError(i) ==
  LET p == Response(i)
  IN  \/ p.err # "nil"
      \/ ~p.resp.Done /\ ~IsToolCall(i)
      \/ p.resp.Done /\ ~SchemaValid(req.OutputSchema, p.resp.Out)

\* C6: every protocol error is fatal: after a reply with no JSON object, a
\* malformed tool response, a missing name or args, rejected arguments, or a
\* done reply whose out fails the output schema, Invoke returns an error and
\* calls neither the backend nor a tool again.
C6_Claim ==
  \A i \in 1..NumReplies :
    (req.ToolInvoker /\ ProtocolError(i))
    => /\ NumReplies = i
       /\ backendCalls = i
       /\ Len(toolCalls) < i
       /\ pc \in {"poll", "decoder", "done"}
       /\ pc = "done" => err # "nil"

\* The error Invoke owes a request it cannot start, "nil" when it can start.
StartError ==
  IF req.Input.k = "chan" THEN "json marshal error"
  ELSE IF req.Input.k # "obj" THEN "ErrInvalidOutput"
  ELSE IF req.PromptTemplate = "unparsable" THEN "template parse"
  ELSE IF req.PromptTemplate = "unexecutable" THEN "template execute"
  ELSE "nil"

\* C7: an input that fails the input schema, or a template that fails to
\* parse or execute, makes Invoke return that error at once: no backend,
\* decoder or tool call and no session turn.
C7_NoCallOnBadRequest ==
  StartError # "nil"
  => /\ pc \in {"init", "done"}
     /\ backendCalls = 0
     /\ decoderCalls = <<>>
     /\ toolCalls = <<>>
     /\ messages = <<>>
     /\ pc = "done" => err = StartError

\* A null input, as in the tests: refused before any call.
C7_Witness ==
  /\ pc = "done"
  /\ req.Input.k = "null"
  /\ req.PromptTemplate = "ok"
  /\ err = "ErrInvalidOutput"
  /\ backendCalls = 0

\* C8: without tools, a reply with no extractable JSON object, or whose
\* extracted object fails the output schema, makes Invoke fail with
\* ErrInvalidOutput after exactly one backend call.
C8_InvalidOutput ==
  (/\ pc = "done"
   /\ ~req.ToolInvoker
   /\ NumReplies = 1
   /\ LET e == Extracted(1)
      IN  \/ e = <<>>
          \/ req.OutputSchema.ok /\ ~SchemaValid(req.OutputSchema, JSONParse(e).v))
  => /\ err = "ErrInvalidOutput"
     /\ backendCalls = 1
     /\ StartError = "nil"

\* Scenario B: the reply "not a json".
C8_Witness ==
  /\ pc = "done"
  /\ ~req.ToolInvoker
  /\ out = <<"not", "a", "json">>
  /\ err = "ErrInvalidOutput"
  /\ backendCalls = 1

\* A reply holds a JSON object that satisfies the schema: some contiguous
\* part of the text parses as an object the schema accepts.
ObjectsIn(text) ==
  { SubSeq(text, i, j) : i \in 1..Len(text), j \in 1..Len(text) }

ValidObjectsOf ==
  [r \in Replies |-> [s \in OutputSchemas |->
     { o \in ObjectsIn(r) :
         JSONValid(o) /\ s.ok /\ SchemaValid(s, JSONParse(o).v) }]]

\* C9: without tools, a reply that contains a JSON object satisfying the
\* output schema makes Invoke succeed with the target decoded from such an
\* object, after one backend call and no decoder or tool call.
C9_Claim ==
  (/\ pc = "done"
   /\ ~req.ToolInvoker
   /\ NumReplies = 1
   /\ ValidObjectsOf[AgentReply(1)][req.OutputSchema] # {})
  => /\ err = "nil"
     /\ \E o \in ValidObjectsOf[AgentReply(1)][req.OutputSchema] :
          output = ResultOf(JSONParse(o).v)
     /\ backendCalls = 1
     /\ decoderCalls = <<>>
     /\ toolCalls = <<>>

\* C10: when the final-answer step returns ErrInvalidOutput the target is as
\* it was before; the target is handed to the decoder, and changes, only
\* after the payload has passed validation.
C10_ValidateThenDecode ==
  /\ (final.ran /\ err = "ErrInvalidOutput") => (output = final.before /\ ~final.decoded)
  /\ (final.decoded \/ output # <<"old">>)
     => /\ final.ran
        /\ req.OutputSchema.ok
        /\ SchemaValid(req.OutputSchema, JSONParse(final.data).v)

\* A payload the decoder could have stored, refused by the stricter schema.
C10_Witness ==
  /\ pc = "done"
  /\ final.ran
  /\ final.data = ResultObj
  /\ err = "ErrInvalidOutput"
  /\ output = <<"old">>

\* The user turn ChatSession.Invoke added at its last entry.
EntryTurn == Message("user", entry.text)

\* C11: a successful ChatSession.Invoke(text) leaves the history it found
\* followed by the user turn with text and the agent turn with the reply,
\* has called the invoker once, with the session's instructions and the
\* history ending in the user turn, and returns the reply.
C11_InvokeAppendsTwo ==
  [][(pc = "calling" /\ pc' = "idle" /\ err' = "nil")
     => /\ messages' = entry.messages \o <<EntryTurn, Message("agent", out')>>
        /\ Len(calls') = entry.ncalls + 1
        /\ calls'[Len(calls')] = InvokerCall(system, entry.messages \o <<EntryTurn>>)
        /\ backendCalls' = Len(calls')]_vars

\* After an Add, Invoke("hi") answered "ok": three messages, reply returned.
C11_Witness ==
  /\ pc = "idle"
  /\ err = "nil"
  /\ backendCalls = 1
  /\ Len(messages) = 3
  /\ messages[1].Role = "system"
  /\ messages[2] = Message("user", <<"hi">>)
  /\ messages[3] = Message("agent", <<"ok">>)
  /\ out = <<"ok">>

\* C12: when the invoker fails, ChatSession.Invoke returns the invoker's
\* error and no text, and the history is the one it found plus the user turn:
\* no agent turn.
C12_FailureKeepsUserTurn ==
  [][(pc = "calling" /\ pc' = "idle" /\ err' # "nil")
     => /\ err' \in InvokerErrors
        /\ out' = <<>>
        /\ messages' = entry.messages \o <<EntryTurn>>
        /\ Len(calls') = entry.ncalls + 1]_vars

\* A failed Invoke("hi") on a history of one message.
C12_Witness ==
  /\ pc = "idle"
  /\ err = "backend failed"
  /\ backendCalls = 1
  /\ Len(messages) = 2
  /\ messages[1].Role = "agent"
  /\ messages[2] = Message("user", <<"hi">>)

\* C13: the history is append-only: every step of Add and Invoke, failing
\* or not, leaves the earlier history as a prefix of the later one.
C13_AppendOnly ==
  [][/\ Len(messages) <= Len(messages')
     /\ SubSeq(messages', 1, Len(messages)) = messages]_vars

\* A failed Invoke, an Add, then a successful Invoke: four messages.
C13_Witness ==
  /\ pc = "idle"
  /\ backendCalls = 2
  /\ err = "nil"
  /\ Len(messages) = 4
  /\ messages[1].Role = "user"
  /\ messages[2].Role = "system"
  /\ messages[3].Role = "user"
  /\ messages[4].Role = "agent"

C15_NoInterleaving ==
  /\ \A i \in Invocations : \A k \in 1..Len(icalls[i]) :
       LET h == icalls[i][k]
       IN  /\ Len(h) = 2 * k - 1
           /\ \A j \in 1..Len(h) : h[j].by = i
           /\ k > 1 => SubSeq(h, 1, 2 * k - 3) = icalls[i][k - 1]
  /\ \A a \in 1..Len(sessions) : \A j, l \in 1..Len(sessions[a]) :
       sessions[a][j].by = sessions[a][l].by

\* Two Invokes, each waiting for the reply to its second backend call.
C15_Witness ==
  /\ \A i \in {1, 2} : ipc[i] = "backend" /\ Len(icalls[i]) = 2
  /\ sessRef[1] # sessRef[2]

\* The prompt turn of Invoke i.
PromptTurn(i) == Owned(Message("user", preparePrompt(req).prompt), i)

\* C16: the first backend call of every Invoke on a Runtime receives a
\* history of one message, the user turn with that Invoke's prompt, whatever
\* Invokes ran on the Runtime before.
C16_FreshHistory ==
  \A i \in Invocations :
    Len(icalls[i]) >= 1 => icalls[i][1] = <<PromptTurn(i)>>

\* Invoke 1 has returned after two backend calls; Invoke 2, started on the
\* second session, waits for its first reply with a history of one message.
C16_Witness ==
  /\ ipc[1] = "done"
  /\ Len(icalls[1]) = 2
  /\ Len(sessions[sessRef[1]]) = 4
  /\ ipc[2] = "backend"
  /\ sessRef[2] = 2
  /\ icalls[2] = << <<PromptTurn(2)>> >>

\* The conditions Invoke reports for bad model output: a reply that is no
\* tool response, a tool call without name or args or with rejected
\* arguments, and a final answer that fails a (loadable) output schema.
BadOutputConditions ==
  ( { ResponseOf[r].err : r \in Replies }
    \cup { CheckToolCall(ResponseOf[r].resp) : r \in Replies }
    \cup { "tool unmarshal: " \o ToolUnmarshaller([Decoder |-> d], ResponseOf[r].resp.Name, <<>>) :
             r \in Replies, d \in Decoders }
    \cup { unmarshalOutput(r, <<"old">>, sc).err :
             r \in Replies, sc \in { x \in OutputSchemas : x.ok } } )
  \ {"nil", "tool unmarshal: nil"}

\* The conditions of a backend failure.
BackendConditions ==
  { e : e \in InvokerErrors } \cup { "invoke session after tool: " \o e : e \in InvokerErrors }

\* C17: the condition Invoke returns tells the terminal classes apart: a
\* request refused for its input or template is not reported with a
\* condition that bad model output, a cancellation or a backend failure is
\* reported with, and none of these three shares a condition with another.
C17_Claim ==
  /\ (pc = "done" /\ StartError # "nil")
     => err \notin (BadOutputConditions \cup BackendConditions \cup {"context.Canceled"})
  /\ BadOutputConditions \cap BackendConditions = {}
  /\ "context.Canceled" \notin (BadOutputConditions \cup BackendConditions)

\* The two shapes of a tool response: a tool call (name and args, done
\* absent or false) and a final answer (done = true with an out object and
\* neither name nor args).
ToolCallShape(r) == ~r.Done /\ r.Name # <<>> /\ r.Args.k # "null"

FinalShape(r) == r.Done /\ r.Out.k = "obj" /\ r.Name = <<>> /\ r.Args.k = "null"

\* C18: a reply object of neither shape is not accepted: no tool is invoked
\* for it and it is not a successful final answer.
C18_Claim ==
  \A i \in 1..NumReplies :
    (/\ req.ToolInvoker
     /\ Response(i).err = "nil"
     /\ ~ToolCallShape(Response(i).resp)
     /\ ~FinalShape(Response(i).resp))
    => /\ Len(toolCalls) < i
       /\ ~(pc = "done" /\ NumReplies = i /\ err = "nil")

\* C19: the loop has no cap on tool-calling turns: as long as every reply
\* is a well-formed tool call and nothing is cancelled, Invoke does not
\* return on its own (only a failing backend ends it), each reply gets its
\* tool invocation and each tool result its backend call.
C19_NoTurnCap ==
  (/\ req.ToolInvoker
   /\ ~cancelled
   /\ NumReplies >= 1
   /\ \A i \in 1..NumReplies : IsToolCall(i))
  => /\ pc = "done" => err \in BackendConditions
     /\ pc \in {"backend", "done"}
        => Len(toolCalls) = NumReplies /\ backendCalls = NumReplies + 1
     /\ pc \in {"poll", "decoder"}
        => Len(toolCalls) = NumReplies - 1 /\ backendCalls = NumReplies
     /\ pc = "tool"
        => Len(toolCalls) = NumReplies /\ backendCalls = NumReplies

\* As many tool calls as the model's bound allows, and the next backend call
\* is out.
C19_Witness ==
  /\ pc = "backend"
  /\ ~cancelled
  /\ NumReplies = MaxCalls - 1
  /\ \A i \in 1..NumReplies : IsToolCall(i)
  /\ Len(toolCalls) = MaxCalls - 1
  /\ backendCalls = MaxCalls

\* The collaborator calls that have been issued and have not returned.
OutstandingBackend ==
  backendCalls - NumReplies - (IF pc = "done" /\ err \in BackendConditions THEN 1 ELSE 0)

OutstandingDecoder ==
  Len(decoderCalls) - Len(toolCalls)
    - (IF pc = "done" /\ err = "tool unmarshal: unexpected tool" THEN 1 ELSE 0)

OutstandingTool == Len(toolCalls) - Len(toolResults)

\* C20: one flow of control in an Invoke: at most one collaborator call
\* (backend, tool decoder, tool invoker) is outstanding at any time; each
\* reply gets at most one tool invocation, and each backend call after the
\* first is issued only after that tool invocation has returned.
C20_SingleFlow ==
  /\ OutstandingBackend \in {0, 1}
  /\ OutstandingDecoder \in {0, 1}
  /\ OutstandingTool \in {0, 1}
  /\ OutstandingBackend + OutstandingDecoder + OutstandingTool <= 1
  /\ OutstandingBackend = 1 <=> pc = "backend"
  /\ OutstandingDecoder = 1 <=> pc = "decoder"
  /\ OutstandingTool = 1 <=> pc = "tool"
  /\ Len(decoderCalls) <= NumReplies
  /\ Len(toolCalls) <= Len(decoderCalls)
  /\ backendCalls <= Len(toolResults) + 1

\* The second backend call is out; the reply, the decoder and the tool of
\* the first iteration have all returned.
C20_Witness ==
  /\ pc = "backend"
  /\ backendCalls = 2
  /\ NumReplies = 1
  /\ Len(decoderCalls) = 1
  /\ Len(toolCalls) = 1
  /\ Len(toolResults) = 1

\* C21: the loop polls the cancellation signal once per iteration, before
\* it reads the reply: when the signal is set at the poll, Invoke returns
\* context.Canceled whatever the reply is, and the reply is not decoded, no
\* decoder, tool or backend call is made and the target is untouched; when
\* it is not set, this iteration does not end in cancellation.
C21_PollBeforeClassify ==
  [][/\ (pc = "poll" /\ cancelled)
        => /\ pc' = "done"
           /\ err' = "context.Canceled"
           /\ err' # "ErrInvalidOutput"
           /\ UNCHANGED <<resp, output, final, decoderCalls, toolCalls,
                          backendCalls, messages>>
     /\ (err' = "context.Canceled" /\ err # "context.Canceled")
        => pc = "poll" /\ cancelled]_vars

\* Cancelled with the text "not a json" pending: cancellation, not a
\* protocol error.
C21_Witness ==
  /\ pc = "done"
  /\ req.ToolInvoker
  /\ cancelPc \in {"backend", "poll"}
  /\ out = <<"not", "a", "json">>
  /\ err = "context.Canceled"
  /\ ~final.ran
  /\ decoderCalls = <<>>

\* C22: after a successful tool invocation the next user turn of the
\* session is the tool's name, " OUTPUT: " and the JSON text of the tool's
\* result, and the backend call that follows receives the history ending in
\* that turn.
C22_ToolOutputFedBack ==
  \A i \in 1..Len(toolResults) :
    toolResults[i].err = "nil"
    => LET turn == Message("user", toolCalls[i] \o <<" OUTPUT: ">>
                                     \o Marshal(toolResults[i].result))
       IN  /\ Len(messages) >= 2 * i + 1
           /\ messages[2 * i + 1] = turn
           /\ Len(calls) >= i + 1
           /\ Len(calls[i + 1].messages) = 2 * i + 1
           /\ calls[i + 1].messages[2 * i + 1] = turn

\* tool1 returned {"result":"ok"}: the turn is out, the backend asked again.
C22_Witness ==
  /\ pc = "backend"
  /\ backendCalls = 2
  /\ toolResults[1].err = "nil"
  /\ messages[3].Role = "user"
  /\ messages[3].Content =
       <<"tool1", " OUTPUT: ", "{", "result", "q", "ok", "q", "}">>

\* The number of tokens t in s.
Count(s, t) == Cardinality({ i \in 1..Len(s) : s[i] = t })

\* The parts of s that are brace-balanced and parse as a JSON object on
\* their own, as pairs of first and last position.
ObjectSpans(s) ==
  { span \in (1..Len(s)) \X (1..Len(s)) :
      LET c == SubSeq(s, span[1], span[2])
      IN  /\ span[1] <= span[2]
          /\ s[span[1]] = "{"
          /\ Count(c, "{") = Count(c, "}")
          /\ JSONValid(c) }

\* The first of them: the leftmost start, and the shortest from there.
FirstObject(s) ==
  IF ObjectSpans(s) = {} THEN <<>>
  ELSE LET span == CHOOSE x \in ObjectSpans(s) :
                     \A y \in ObjectSpans(s) :
                       x[1] < y[1] \/ (x[1] = y[1] /\ x[2] <= y[2])
       IN  SubSeq(s, span[1], span[2])

\* C23: ExtractJSONFromString returns the first brace-balanced part of the
\* text that parses as a JSON object, also when a candidate before it does
\* not parse, and the empty text only when there is no such part.
C23_Claim ==
  pc \in {"once", "twice"} => extracted = FirstObject(extractIn)

\* C24: extraction is idempotent: applied to its own result,
\* ExtractJSONFromString returns that result, the empty one included.
C24_Idempotent ==
  pc = "twice" => again = extracted

\* An object inside an object after a word: extracted, and extracted again.
C24_Witness ==
  /\ pc = "twice"
  /\ extractIn = <<"q", "{", "out", "{", "}", "}">>
  /\ extracted = <<"{", "out", "{", "}", "}">>
  /\ again = extracted

\* The section headers, in the order of the contract.
SectionOrder ==
  <<"[SYSTEM INSTRUCTIONS]", "[WORKFLOW]", "[TOOLS]", "[INPUT]:",
    "[OUTPUT FORMAT]", "[GUIDELINES]:", "[USER PROMPT]">>

\* The positions of header h in prompt p.
At(p, h) == { i \in 1..Len(p) : p[i] = h }

Present(p, h) == At(p, h) # {}

C27_Claim ==
  \A k, l \in 1..Len(prompts) :
    (prompts[k].userPrompt = prompts[l].userPrompt /\ prompts[k].req = prompts[l].req)
    => prompts[k].prompt = prompts[l].prompt

\* The terminal states of Invoke: FinalAnswer (no error, the output decoded
\* from a done reply or, without tools, from the reply), Cancelled (the
\* context's error, the context cancelled), Failed (any other error).
FinalAnswer ==
  /\ err = "nil"
  /\ final.ran
  /\ req.ToolInvoker => Response(NumReplies).resp.Done

Cancelled ==
  /\ err = "context.Canceled"
  /\ cancelled

Failed == err \notin {"nil", "context.Canceled"}

\* The loop holds a reply that is a done reply or violates the protocol:
\* no JSON object, not a tool response, or done = false without name or args.
FatalReply ==
  /\ pc = "poll"
  /\ LET p == Response(NumReplies)
     IN  \/ p.err # "nil"
         \/ p.resp.Done
         \/ p.resp.Name = <<>>
         \/ p.resp.Args.k = "null"

\* The step of a backend call that fails: it ends with no agent turn.
BackendFailure ==
  /\ pc = "backend"
  /\ pc' # "backend"
  /\ messages' = messages

\* C28: Invoke returns only in FinalAnswer, Failed or Cancelled, and, every
\* collaborator call returning, it returns once a reply is a done reply or a
\* protocol-violating reply, and at once when the backend fails: the loop's
\* step on such a reply is the return, and that step is taken.
C28_Terminates ==
  /\ [](pc = "done" => (FinalAnswer \/ Failed \/ Cancelled))
  /\ [][BackendFailure => pc' = "done" /\ err' \notin {"nil", "context.Canceled"}]_vars
  /\ [][FatalReply /\ cancelled' = cancelled => pc' = "done"]_vars
  /\ (FatalReply ~> pc = "done")

\* Invoke has returned the answer of a done reply that came after two tool
\* calls.
C28_Witness ==
  /\ pc = "done"
  /\ FinalAnswer
  /\ NumReplies = 3
  /\ Len(toolResults) = 2
  /\ Response(3).resp.Done

\* The extracted JSON object of a reply read on its own: ok when it is an
\* object whose done is a bool and whose name is a string, where present;
\* the fields it has, zero values for those it lacks.
OwnContent(reply) ==
  LET rawJSON == ExtractJSONFromString(reply)
      p == JSONParse(rawJSON)
      o == p.v
  IN  [ok |-> /\ rawJSON # <<>>
              /\ p.ok
              /\ o.k = "obj"
              /\ Field(o, "done").k \in {"bool", "null"}
              /\ Field(o, "name").k \in {"str", "null"},
       Done |-> Field(o, "done") = JBool("true"),
       Out  |-> Field(o, "out"),
       Name |-> IF Field(o, "name").k = "str" THEN Field(o, "name").c ELSE <<>>,
       Args |-> Field(o, "args")]

\* C29: an iteration of the loop works on the done, name, args and out of
\* the reply it holds and on nothing an earlier reply left: a done reply ends
\* with its own out, a reply without name ends as missing its name, one
\* without args as missing its args, and any other goes to the decoder under
\* its own name.
C29_OwnContent ==
  [][(pc = "poll" /\ ~cancelled /\ pc' # "poll" /\ OwnContent(out).ok) =>
       LET own == OwnContent(out)
       IN  /\ resp' = [Done |-> own.Done, Out |-> own.Out, Name |-> own.Name, Args |-> own.Args]
           /\ own.Done =>
                /\ pc' = "done"
                /\ final'.ran
                /\ final'.data = ExtractJSONFromString(Marshal(own.Out))
                /\ UNCHANGED decoderCalls
           /\ (~own.Done /\ own.Name = <<>>) =>
                /\ pc' = "done"
                /\ err' = "tool response missing 'name'"
                /\ UNCHANGED decoderCalls
           /\ (~own.Done /\ own.Name # <<>> /\ own.Args = JNull) =>
                /\ pc' = "done"
                /\ err' = "tool missing 'args'"
                /\ UNCHANGED decoderCalls
           /\ (~own.Done /\ own.Name # <<>> /\ own.Args # JNull) =>
                /\ pc' = "decoder"
                /\ decoderCalls' = Append(decoderCalls, own.Name)]_vars

\* After a tool call of tool1 the reply {} ended Invoke as missing its name:
\* the name of the first reply was not used for it.
C29_Witness ==
  /\ pc = "done"
  /\ toolCalls = << <<"tool1">> >>
  /\ NumReplies = 2
  /\ AgentReply(2) = <<"{", "}">>
  /\ resp = ZeroResponse
  /\ err = "tool response missing 'name'"

\* The backend calls that have returned a reply: those issued, less the one
\* Invoke waits for and the one that failed.
ReturnedCalls ==
  backendCalls - (IF pc = "backend" THEN 1 ELSE 0)
               - (IF pc = "done" /\ err \in BackendConditions THEN 1 ELSE 0)

\* C30: the call counts of one Invoke: from the first backend call on there
\* are as many backend calls as tool invocations or one more; the tool
\* decoder has been called at least as often as the tool invoker; and the
\* session history has one turn for each backend call issued and one for each
\* that returned a reply.
C30_CallCounts ==
  /\ backendCalls >= 1 =>
       /\ Len(toolCalls) <= backendCalls
       /\ backendCalls <= Len(toolCalls) + 1
  /\ Len(decoderCalls) >= Len(toolCalls)
  /\ Len(messages) = backendCalls + ReturnedCalls

\* The second backend call failed after one tool invocation; a second
\* decoder call was never made: three turns for two calls and one reply.
C30_Witness ==
  /\ pc = "done"
  /\ err \in BackendConditions
  /\ backendCalls = 2
  /\ Len(toolCalls) = 1
  /\ Len(decoderCalls) = 1
  /\ Len(messages) = 3

\* C31: the session history of an Invoke alternates user, agent, user, ...
\* from the user turn that holds the rendered prompt: every tool output or
\* tool error is a user turn, every backend reply an agent turn, and there
\* is no system turn.
C31_Alternation ==
  /\ \A i \in 1..Len(messages) :
       /\ messages[i].Role = (IF i % 2 = 1 THEN "user" ELSE "agent")
       /\ messages[i].Role # "system"
       /\ i % 2 = 0 => messages[i].Content \in Replies
  /\ Len(messages) >= 1 => messages[1] = Message("user", preparePrompt(req).prompt)
  /\ \A i \in 1..Len(toolResults) :
       /\ Len(messages) >= 2 * i + 1
       /\ messages[2 * i + 1] = Message("user", callTool(toolCalls[i], toolResults[i]))
  /\ Len(messages) <= 2 * Len(toolResults) + 2

\* A history of six turns: the prompt, a tool call, the tool's error, a tool
\* call, the tool's output, a reply.
C31_Witness ==
  /\ Len(messages) = 6
  /\ Len(toolResults) = 2
  /\ toolResults[1].err # "nil"
  /\ toolResults[2].err = "nil"
  /\ messages[3].Content = <<"ERR: ", toolResults[1].err>>
  /\ messages[5].Role = "user"

\* C32: with tools, a reply classified as done is the last one: no backend
\* call, decoder call or tool invocation follows it, and once its out has
\* been put to the output schema Invoke has returned, valid or not.
C32_DoneEnds ==
  req.ToolInvoker =>
    /\ \A i \in 1..NumReplies :
         (Response(i).err = "nil" /\ Response(i).resp.Done) =>
           /\ i = NumReplies
           /\ backendCalls = i
           /\ Len(decoderCalls) < i
           /\ Len(toolCalls) < i
           /\ Len(toolResults) < i
           /\ pc \in {"poll", "done"}
    /\ final.ran => pc = "done"

\* After one tool invocation a done reply whose out fails the output schema
\* ended Invoke in failure, the backend called twice.
C32_Witness ==
  /\ req.ToolInvoker
  /\ pc = "done"
  /\ NumReplies = 2
  /\ Response(2).resp.Done
  /\ Response(2).err = "nil"
  /\ final.ran
  /\ err # "nil"
  /\ Len(toolResults) = 1
  /\ backendCalls = 2

\* Invoke has returned the error of a failed backend call.
BackendFailed == pc = "done" /\ err \in BackendConditions

\* C33: a failed backend call, the first or one after a tool invocation,
\* ends Invoke with an error that holds the invoker's error; no call
\* follows, the output target is as it was, the session ends with the user
\* turn that got no reply, and the tool invocations made stay made.
C33_BackendFailure ==
  /\ [](BackendFailed =>
          /\ output = <<"old">>
          /\ ~final.ran
          /\ Len(messages) = 2 * backendCalls - 1
          /\ messages[Len(messages)].Role = "user"
          /\ Len(toolResults) = backendCalls - 1
          /\ Len(toolCalls) = backendCalls - 1)
  /\ [][BackendFailure =>
          /\ BackendFailed'
          /\ backendCalls = 1 => err' \in InvokerErrors
          /\ backendCalls > 1 => err' \in { "invoke session after tool: " \o e : e \in InvokerErrors }
          /\ UNCHANGED <<output, messages, backendCalls, decoderCalls, toolCalls,
                         toolResults, calls>>]_vars
  /\ [][BackendFailed => UNCHANGED vars]_vars

\* The third backend call failed after two tool invocations.
C33_Witness ==
  /\ BackendFailed
  /\ backendCalls = 3
  /\ Len(toolResults) = 2
  /\ Len(messages) = 5
  /\ err = "invoke session after tool: backend failed"
  /\ output = <<"old">>

\* The step in which the first backend call returns a reply.
FirstReply ==
  /\ pc = "backend"
  /\ backendCalls = 1
  /\ Len(messages') = 2

\* The prompt of the Invoke carries the tool protocol.
ToolPrompt ==
  /\ Present(messages[1].Content, "[WORKFLOW]")
  /\ Present(messages[1].Content, "[TOOLS]")
  /\ Present(messages[1].Content, "tool call or done")

\* The prompt of the Invoke asks for a single answer.
AnswerPrompt ==
  /\ ~Present(messages[1].Content, "[WORKFLOW]")
  /\ ~Present(messages[1].Content, "[TOOLS]")
  /\ Present(messages[1].Content, "single answer")

\* C34: the prompt carries the tool protocol exactly when the runtime
\* enters the agent loop with the first reply, and asks for a single answer
\* exactly when the runtime decodes the first reply as the final answer.
C34_Claim ==
  [][FirstReply =>
       /\ ToolPrompt <=> pc' = "poll"
       /\ AnswerPrompt <=> (pc' = "done" /\ final'.ran)]_vars

\* What an Invoke without a ToolInvoker returns, from the request and the
\* reply alone: the error and the output target.
DirectOutcome ==
  IF StartError # "nil" THEN [err |-> StartError, out |-> <<"old">>]
  ELSE IF NumReplies = 0 THEN [err |-> "backend failed", out |-> <<"old">>]
  ELSE LET r == unmarshalOutput(AgentReply(1), <<"old">>, req.OutputSchema)
       IN  [err |-> r.err, out |-> r.out]

\* C35: without a ToolInvoker the runtime does not look at ctx: what Invoke
\* returns and what it leaves in the output target follow from the request
\* and the reply, whether ctx was cancelled before the call, during it, or
\* not at all.
C35_NoPollWithoutTools ==
  (pc = "done" /\ ~req.ToolInvoker) =>
    /\ err = DirectOutcome.err
    /\ output = DirectOutcome.out
    /\ err # "context.Canceled"
    /\ backendCalls <= 1

\* ctx was cancelled before the backend call, and Invoke returned the
\* decoded answer all the same.
C35_Witness ==
  /\ pc = "done"
  /\ ~req.ToolInvoker
  /\ cancelled
  /\ cancelPc = "init"
  /\ err = "nil"
  /\ output # <<"old">>
  /\ NumReplies = 1

\* C36: for a message set that Validate accepts, with a message that has a
\* field of its own type or two messages that refer to each other, the
\* generation comes to an end: the recursion of GenerateJSONSchema does not
\* go on until the stack is exhausted.
C36_Claim == pc # "overflow"

\* C37: a specification that Validate accepts never fails schema generation
\* with an unknown-type error: fieldToSchema has a schema for every field
\* type Validate lets through.
C37_Claim == genErr # "unknown custom type"

\* C38: a result of ExtractJSONFromString that is not empty is the part of
\* the input from its first "{" to a "}", has as many "{" as "}", and is
\* JSON on its own; the start is never past the first "{".
C38_ResultShape ==
  (pc \in {"once", "twice"} /\ extracted # <<>>) =>
    /\ Count(extractIn, "{") >= 1
    /\ LET first == CHOOSE i \in 1..Len(extractIn) :
                      /\ extractIn[i] = "{"
                      /\ \A h \in 1..(i - 1) : extractIn[h] # "{"
           last == first + Len(extracted) - 1
       IN  /\ last <= Len(extractIn)
           /\ extracted = SubSeq(extractIn, first, last)
           /\ extractIn[last] = "}"
    /\ Count(extracted, "{") = Count(extracted, "}")
    /\ JSONValid(extracted)

\* An object with one member, taken from a text that starts with something
\* else.
C38_Witness ==
  /\ pc = "once"
  /\ extractIn = <<"out", "{", "out", "q", "q", "}">>
  /\ extracted = <<"{", "out", "q", "q", "}">>

====
